---- MODULE Spec2Model ----
(***************************************************************************)
(* Model of converter.py: the spreadsheet-to-JSON member converter.        *)
(*                                                                         *)
(* Text is a sequence of Unicode code points (TLA+ strings are ASCII and   *)
(* atomic, the program's text is Cyrillic and is sliced, searched and      *)
(* lower-cased).  A spreadsheet cell is a record [na, s]: na says that     *)
(* pandas read the cell as missing (NaN), s is str(cell), which is what    *)
(* every use of a cell in the program goes through.  Row and column        *)
(* indices are 0-based as in the program; TLA+ sequences are 1-based, so   *)
(* row idx of the table is df[idx + 1].                                    *)
(***************************************************************************)
EXTENDS Integers, Sequences, FiniteSets, TLC

-----------------------------------------------------------------------------
(* Bounds of the model *)

\* the largest number of rows of an input table
MaxRows == 3

\* datetime.now() is one of 0 .. MaxClock
MaxClock == 1

-----------------------------------------------------------------------------
(* Python text primitives *)

MinOf(S) == CHOOSE x \in S : \A y \in S : x <= y
MaxOf(S) == CHOOSE x \in S : \A y \in S : x >= y

\* the characters str.strip() removes, among the characters of the model
IsSpace(c) == c \in {9, 10, 11, 12, 13, 32, 160}

\* str.isdigit() of one character, among the characters of the model: the
\* decimal digits '0'..'9' (the cells of InputRows hold no other digit
\* character, such as a superscript, that isdigit() accepts and int() rejects)
IsDigitChar(c) == c \in 48..57

\* a character of the regex class \w: digit, Latin or Cyrillic letter, '_'
IsWordChar(c) ==
    \/ c \in 48..57
    \/ c \in 65..90
    \/ c \in 97..122
    \/ c = 95
    \/ c \in 1024..1279

\* str.lower() of one character: Latin A-Z, Cyrillic А-Я and Ѐ-Џ
LowerChar(c) ==
    IF c \in 65..90 \/ c \in 1040..1071 THEN c + 32
    ELSE IF c \in 1024..1039 THEN c + 80
    ELSE c

Lower(s) == [i \in 1..Len(s) |-> LowerChar(s[i])]

\* s.strip()
Strip(s) ==
    LET keep == {i \in 1..Len(s) : ~IsSpace(s[i])}
    IN  IF keep = {} THEN << >> ELSE SubSeq(s, MinOf(keep), MaxOf(keep))

\* s.isdigit(): non-empty and every character a digit
IsDigit(s) == Len(s) > 0 /\ \A i \in 1..Len(s) : IsDigitChar(s[i])

\* s.find(sub): 0-based index of the first occurrence, -1 when there is none
Find(s, sub) ==
    LET at == {i \in 1..(Len(s) - Len(sub) + 1) :
                  SubSeq(s, i, i + Len(sub) - 1) = sub}
    IN  IF at = {} THEN -1 ELSE MinOf(at) - 1

\* s.rfind(sub): 0-based index of the last occurrence, -1 when there is none
RFind(s, sub) ==
    LET at == {i \in 1..(Len(s) - Len(sub) + 1) :
                  SubSeq(s, i, i + Len(sub) - 1) = sub}
    IN  IF at = {} THEN -1 ELSE MaxOf(at) - 1

\* sub in s
Contains(s, sub) == Find(s, sub) # -1

\* s[a:b] for 0 <= a, -1 <= b  (a slice never fails; it is empty when b <= a)
Slice(s, a, b) ==
    LET hi == IF b < Len(s) THEN b ELSE Len(s)
    IN  IF a + 1 > hi THEN << >> ELSE SubSeq(s, a + 1, hi)

\* s[a:]
SliceFrom(s, a) == Slice(s, a, Len(s))

\* s.replace(old, new): left to right, non-overlapping, one pass
RECURSIVE Replace(_, _, _)
Replace(s, old, new) ==
    IF Len(s) < Len(old) THEN s
    ELSE IF SubSeq(s, 1, Len(old)) = old
         THEN new \o Replace(SliceFrom(s, Len(old)), old, new)
         ELSE <<s[1]>> \o Replace(Tail(s), old, new)

\* int(s) of a string of decimal digits
RECURSIVE ParseInt(_)
ParseInt(s) ==
    IF Len(s) = 0 THEN 0
    ELSE 10 * ParseInt(SubSeq(s, 1, Len(s) - 1)) + (s[Len(s)] - 48)

\* str(n) of an integer n >= 0
RECURSIVE IntToStr(_)
IntToStr(n) ==
    IF n < 10 THEN <<48 + n>>
    ELSE IntToStr(n \div 10) \o <<48 + (n % 10)>>

\* s.split(): the maximal runs of non-whitespace characters, in order
RECURSIVE SplitWS(_)
SplitWS(s) ==
    LET t == Strip(s)
        ws == {i \in 1..Len(t) : IsSpace(t[i])}
    IN  IF t = << >> THEN << >>
        ELSE IF ws = {} THEN <<t>>
        ELSE <<SubSeq(t, 1, MinOf(ws) - 1)>> \o SplitWS(SliceFrom(t, MinOf(ws)))

-----------------------------------------------------------------------------
(* Cells *)

\* a missing cell (NaN); str(nan) is 'nan'
NaN == [na |-> TRUE, s |-> <<110, 97, 110>>]

\* a cell holding text
Cell(s) == [na |-> FALSE, s |-> s]

\* pd.isna(x)
IsNa(x) == x.na

\* str(x)
Str(x) == x.s

\* The empty Python string ''
Empty == << >>

-----------------------------------------------------------------------------
(* Text constants of the program *)

\* '\n', ' ' and '  '
NL == <<10>>
SP == <<32>>
SP2 == <<32, 32>>

\* '«', '»' and '"'
LQ == <<171>>
RQ == <<187>>
DQ == <<34>>

\* 'ООО' and 'ИП '
OOO == <<1054, 1054, 1054>>
IP_ == <<1048, 1055, 32>>

\* 'ип ', 'индивидуальный предприниматель'
IeMarkers ==
    { <<1080, 1087, 32>>,
      <<1080, 1085, 1076, 1080, 1074, 1080, 1076, 1091, 1072, 1083, 1100,
        1085, 1099, 1081, 32, 1087, 1088, 1077, 1076, 1087, 1088, 1080,
        1085, 1080, 1084, 1072, 1090, 1077, 1083, 1100>> }

\* 'ооо', 'общество с ограниченной ответственностью', 'limited', 'ltd',
\* 'corporation', 'акционерное общество', 'ао '
OrgMarkers ==
    { <<1086, 1086, 1086>>,
      <<1086, 1073, 1097, 1077, 1089, 1090, 1074, 1086, 32, 1089, 32, 1086,
        1075, 1088, 1072, 1085, 1080, 1095, 1077, 1085, 1085, 1086, 1081,
        32, 1086, 1090, 1074, 1077, 1090, 1089, 1090, 1074, 1077, 1085,
        1085, 1086, 1089, 1090, 1100, 1102>>,
      <<108, 105, 109, 105, 116, 101, 100>>,
      <<108, 116, 100>>,
      <<99, 111, 114, 112, 111, 114, 97, 116, 105, 111, 110>>,
      <<1072, 1082, 1094, 1080, 1086, 1085, 1077, 1088, 1085, 1086, 1077,
        32, 1086, 1073, 1097, 1077, 1089, 1090, 1074, 1086>>,
      <<1072, 1086, 32>> }

\* 'исключенные', 'добровольно', 'выбывшие'
SeparatorMarkers ==
    { <<1080, 1089, 1082, 1083, 1102, 1095, 1077, 1085, 1085, 1099, 1077>>,
      <<1076, 1086, 1073, 1088, 1086, 1074, 1086, 1083, 1100, 1085, 1086>>,
      <<1074, 1099, 1073, 1099, 1074, 1096, 1080, 1077>> }

\* 'Действующий член НКО ПОВС "ПАРУС"'
ActiveStatusText ==
    <<1044, 1077, 1081, 1089, 1090, 1074, 1091, 1102, 1097, 1080, 1081, 32,
      1095, 1083, 1077, 1085, 32, 1053, 1050, 1054, 32, 1055, 1054, 1042,
      1057, 32, 34, 1055, 1040, 1056, 1059, 1057, 34>>

\* 'Исключен из членов НКО ПОВС "Парус"'
InactiveStatusText ==
    <<1048, 1089, 1082, 1083, 1102, 1095, 1077, 1085, 32, 1080, 1079, 32,
      1095, 1083, 1077, 1085, 1086, 1074, 32, 1053, 1050, 1054, 32, 1055,
      1054, 1042, 1057, 32, 34, 1055, 1072, 1088, 1091, 1089, 34>>

-----------------------------------------------------------------------------
(* The helper functions of converter.py *)

\* clean_text without the strip() call
clean_text_nostrip(text) ==
    IF IsNa(text) THEN Empty
    ELSE Replace(Replace(Str(text), NL, SP), SP2, SP)

\* clean_text(text)
clean_text(text) ==
    IF IsNa(text) THEN Empty
    ELSE Replace(Replace(Strip(Str(text)), NL, SP), SP2, SP)

\* the 0-based starts of the matches of \b\d{n}\b in text
InnMatches(text, n) ==
    {i \in 0..(Len(text) - n) :
        /\ \A k \in 1..n : IsDigitChar(text[i + k])
        /\ (i = 0 \/ ~IsWordChar(text[i]))
        /\ (i + n = Len(text) \/ ~IsWordChar(text[i + n + 1]))}

\* extract_inn(text): the leftmost standalone run of 10 or of 12 digits,
\* else the trimmed text
extract_inn(text) ==
    IF IsNa(text) THEN Empty
    ELSE LET t == Str(text)
             m10 == InnMatches(t, 10)
             m12 == InnMatches(t, 12)
             first == MinOf(m10 \cup m12)
         IN  IF m10 \cup m12 = {} THEN Strip(t)
             ELSE IF first \in m10 THEN Slice(t, first, first + 10)
             ELSE Slice(t, first, first + 12)

\* determine_member_type with the organizational markers tested first
determine_member_type_orgfirst(name) ==
    IF IsNa(name) THEN "unknown"
    ELSE LET name_lower == Lower(Str(name))
         IN  IF \E w \in OrgMarkers : Contains(name_lower, w) THEN "company"
             ELSE IF \E w \in IeMarkers : Contains(name_lower, w) THEN "ie"
             ELSE "person"

\* determine_member_type(name)
determine_member_type(name) ==
    IF IsNa(name) THEN "unknown"
    ELSE LET name_lower == Lower(Str(name))
         IN  IF \E w \in IeMarkers : Contains(name_lower, w) THEN "ie"
             ELSE IF \E w \in OrgMarkers : Contains(name_lower, w)
                  THEN "company"
             ELSE "person"

\* name.split('"')[1]: the text between the first '"' and the next one
\* (to the end of the name when there is no other)
SecondDQPart(name) ==
    LET rest == SliceFrom(name, Find(name, DQ) + 1)
    IN  IF Contains(rest, DQ) THEN Slice(rest, 0, Find(rest, DQ)) ELSE rest

\* create_short_name(full_name, member_type)
create_short_name(full_name, member_type) ==
    IF IsNa(full_name) THEN Empty
    ELSE LET name == Strip(Str(full_name))
         IN  IF member_type = "company"
             THEN IF Contains(name, LQ) /\ Contains(name, RQ)
                  THEN LET short == Slice(name, Find(name, LQ),
                                          Find(name, RQ) + 1)
                       IN  IF Contains(Slice(name, 0, 30), OOO)
                           THEN OOO \o SP \o short
                           ELSE short
                  ELSE IF Contains(name, DQ)
                  THEN IF Contains(name, OOO)
                       THEN OOO \o SP \o DQ \o SecondDQPart(name) \o DQ
                       ELSE DQ \o SecondDQPart(name) \o DQ
                  ELSE Slice(name, 0, 60)
             ELSE IF member_type = "ie"
             THEN LET name_part ==
                          Strip(SliceFrom(name, RFind(name, IP_) + Len(IP_)))
                      parts == SplitWS(name_part)
                  IN  IF Contains(name, IP_) /\ Len(parts) >= 3
                      THEN IP_ \o parts[1] \o SP \o <<parts[2][1]>> \o <<46>>
                               \o <<parts[3][1]>> \o <<46>>
                      ELSE Slice(name, 0, 60)
             ELSE name

\* is_separator_row(row)
is_separator_row(row) ==
    LET first_col == IF ~IsNa(row[1]) THEN Lower(Str(row[1])) ELSE Empty
    IN  \E w \in SeparatorMarkers : Contains(first_col, w)

-----------------------------------------------------------------------------
(* The input: the table pd.read_excel(excel_file, header=None) returns *)

\* The rows an input table is made of: first cell (sequence number), second
\* cell (name), third cell (tax id).
InputRows ==
    {
      \* (missing) | 'ООО «Ромашка»' | '1234567890'
      <<NaN,
        Cell(<<1054, 1054, 1054, 32, 171, 1056, 1086, 1084, 1072, 1096, 1082, 1072, 187>>),
        Cell(<<49, 50, 51, 52, 53, 54, 55, 56, 57, 48>>)>>,
      \* '№ п/п' | 'Наименование' | (missing)
      <<Cell(<<8470, 32, 1087, 47, 1087>>),
        Cell(<<1053, 1072, 1080, 1084, 1077, 1085, 1086, 1074, 1072, 1085, 1080, 1077>>),
        NaN>>,
      \* '1' | 'ООО «Ромашка»' | '1234567890'
      <<Cell(<<49>>),
        Cell(<<1054, 1054, 1054, 32, 171, 1056, 1086, 1084, 1072, 1096, 1082, 1072, 187>>),
        Cell(<<49, 50, 51, 52, 53, 54, 55, 56, 57, 48>>)>>,
      \* '01' | 'ИП Иванов Петр Сергеевич' | (missing)
      <<Cell(<<48, 49>>),
        Cell(<<1048, 1055, 32, 1048, 1074, 1072, 1085, 1086, 1074, 32, 1055, 1077, 1090, 1088, 32, 1057, 1077, 1088, 1075, 1077, 1077, 1074, 1080, 1095>>),
        NaN>>,
      \* '1.0' | ' Иванов\nИван ' | 'ИНН 123456789012'
      <<Cell(<<49, 46, 48>>),
        Cell(<<32, 1048, 1074, 1072, 1085, 1086, 1074, 10, 1048, 1074, 1072, 1085, 32>>),
        Cell(<<1048, 1053, 1053, 32, 49, 50, 51, 52, 53, 54, 55, 56, 57, 48, 49, 50>>)>>,
      \* '5' | ' Иванов\nИван ' | 'ИНН 123456789012'
      <<Cell(<<53>>),
        Cell(<<32, 1048, 1074, 1072, 1085, 1086, 1074, 10, 1048, 1074, 1072, 1085, 32>>),
        Cell(<<1048, 1053, 1053, 32, 49, 50, 51, 52, 53, 54, 55, 56, 57, 48, 49, 50>>)>>,
      \* '5.0' | 'ООО «Ромашка»' | '1234567890'
      <<Cell(<<53, 46, 48>>),
        Cell(<<1054, 1054, 1054, 32, 171, 1056, 1086, 1084, 1072, 1096, 1082, 1072, 187>>),
        Cell(<<49, 50, 51, 52, 53, 54, 55, 56, 57, 48>>)>>,
      \* ' 2 ' | 'ООО » «Б»' | (missing)
      <<Cell(<<32, 50, 32>>),
        Cell(<<1054, 1054, 1054, 32, 187, 32, 171, 1041, 187>>),
        NaN>>,
      \* 'Исключенные члены' | (missing) | (missing)
      <<Cell(<<1048, 1089, 1082, 1083, 1102, 1095, 1077, 1085, 1085, 1099, 1077, 32, 1095, 1083, 1077, 1085, 1099>>),
        NaN,
        NaN>>,
      \* '3' | '  ' | '1234567890'
      <<Cell(<<51>>),
        Cell(<<32, 32>>),
        Cell(<<49, 50, 51, 52, 53, 54, 55, 56, 57, 48>>)>>,
      \* '7' | 'АО "Парус"' | (missing)
      <<Cell(<<55>>),
        Cell(<<1040, 1054, 32, 34, 1055, 1072, 1088, 1091, 1089, 34>>),
        NaN>>,
      \* '1' | (missing) | (missing)
      <<Cell(<<49>>),
        NaN,
        NaN>>,
      \* '3' | 'ИП Петров ООО' | '12345'
      <<Cell(<<51>>),
        Cell(<<1048, 1055, 32, 1055, 1077, 1090, 1088, 1086, 1074, 32, 1054, 1054, 1054>>),
        Cell(<<49, 50, 51, 52, 53>>)>>
    }

\* the number of columns of an input table
Widths == {2, 3}

\* the rows of a table of w columns
RowsOfWidth(w) == {SubSeq(r, 1, w) : r \in InputRows}

\* the input tables: up to MaxRows rows, every row of the same width
Tables ==
    UNION {UNION {[1..n -> RowsOfWidth(w)] : w \in Widths} : n \in 0..MaxRows}

\* excel_file, the name of the input file ('members.xls')
excel_file == <<109, 101, 109, 98, 101, 114, 115, 46, 120, 108, 115>>

-----------------------------------------------------------------------------
(* State *)

VARIABLES
    df_raw,          \* the table read from the spreadsheet
    pc,              \* the position in process_excel_to_json and __main__
    idx,             \* the row index of the loop that is running
    data_start,      \* index of the first data row, None until found
    separator_row,   \* index of the separator row, None when there is none
    all_members,     \* the records built so far
    src_rows,        \* history: src_rows[i] is the row all_members[i] is from
    complete_json,   \* the file members_complete.json
    search_json,     \* the file members_search.json
    result,          \* what process_excel_to_json returned
    report           \* the final message of __main__

vars == <<df_raw, pc, idx, data_start, separator_row, all_members, src_rows,
          complete_json, search_json, result, report>>

\* Python's None, for data_start and separator_row
None == -1

\* a file that does not exist, a file holding data
NoFile == [exists |-> FALSE]
File(data) == [exists |-> TRUE, data |-> data]

\* process_excel_to_json has not returned, returned None, returned output
NotReturned == [returned |-> FALSE]
ReturnedNone == [returned |-> TRUE, none |-> TRUE]
Returned(output) == [returned |-> TRUE, none |-> FALSE, value |-> output]

\* df_raw.iloc[i]
Row(i) == df_raw[i + 1]

-----------------------------------------------------------------------------
(* The pieces of process_excel_to_json *)

\* the test of the data-start scan without the comparison with 1
is_data_start_anynumber(row) ==
    LET first_cell == Strip(Str(row[1]))
    IN  IsDigit(first_cell)

\* the test of the data-start scan comparing the text with '1'
is_data_start_textone(row) ==
    LET first_cell == Strip(Str(row[1]))
    IN  first_cell = <<49>>

\* the test of the data-start scan on one row
is_data_start(row) ==
    LET first_cell == Strip(Str(row[1]))
    IN  IsDigit(first_cell) /\ ParseInt(first_cell) = 1

\* the truth value of separator_row in a condition: None and 0 are false
Truthy(sep) == sep # None /\ sep # 0

\* active_df running to the end of the table whatever the separator
active_df_wholetable(start, sep) ==
    [lo |-> start, hi |-> Len(df_raw)]

\* active_df, as the bounds [lo, hi) of the slice of df_raw
active_df(start, sep) ==
    IF Truthy(sep) THEN [lo |-> start, hi |-> sep]
    ELSE [lo |-> start, hi |-> Len(df_raw)]

\* excluded_df, as the bounds [lo, hi) of the slice of df_raw; None is the
\* empty slice (both skip the loop over the excluded members)
excluded_df(sep) ==
    IF Truthy(sep) /\ sep + 1 < Len(df_raw)
    THEN [lo |-> sep + 1, hi |-> Len(df_raw)]
    ELSE [lo |-> 0, hi |-> 0]

\* the tests that skip a row without the test of the name
skip_row_noname(row) ==
    \/ IsNa(row[1])
    \/ ~IsDigit(Strip(Str(row[1])))

\* the two tests that skip a row: first column not a number, name empty
skip_row(row) ==
    \/ IsNa(row[1])
    \/ ~IsDigit(Strip(Str(row[1])))
    \/ clean_text(row[2]) = Empty

\* str(int(float(cell))) of a cell that passed skip_row: float() ignores the
\* surrounding whitespace and is exact on digit strings below 2^53
member_id(cell) == IntToStr(ParseInt(Strip(Str(cell))))

\* the member built from a row of the active section
active_member(row) ==
    LET name == clean_text(row[2])
        member_type == determine_member_type(Cell(name))
    IN  [id |-> member_id(row[1]),
         name |-> name,
         shortName |-> create_short_name(Cell(name), member_type),
         inn |-> IF Len(row) > 2 THEN extract_inn(row[3]) ELSE Empty,
         address |-> IF Len(row) > 3 THEN clean_text(row[4]) ELSE Empty,
         activity |-> IF Len(row) > 4 THEN clean_text(row[5]) ELSE Empty,
         interests |-> IF Len(row) > 5 THEN clean_text(row[6]) ELSE Empty,
         type |-> member_type,
         status |-> "active",
         statusText |-> ActiveStatusText,
         dateJoined |-> Empty]

\* the member built from a row of the excluded section
excluded_member(row) ==
    LET name == clean_text(row[2])
        member_type == determine_member_type(Cell(name))
    IN  [id |-> member_id(row[1]),
         name |-> name,
         shortName |-> create_short_name(Cell(name), member_type),
         inn |-> IF Len(row) > 2 THEN extract_inn(row[3]) ELSE Empty,
         address |-> IF Len(row) > 3 THEN clean_text(row[4]) ELSE Empty,
         activity |-> IF Len(row) > 4 THEN clean_text(row[5]) ELSE Empty,
         interests |-> IF Len(row) > 5 THEN clean_text(row[6]) ELSE Empty,
         type |-> member_type,
         status |-> "inactive",
         statusText |-> InactiveStatusText,
         dateExcluded |-> Empty]

\* len([m for m in members if m[field] == value])
CountBy(members, field, value) ==
    Cardinality({i \in 1..Len(members) : members[i][field] = value})

\* output['metadata'] counting the inactive members by the status 'excluded'
Metadata_excluded(members, now) ==
    [totalMembers |-> Len(members),
     activeMembers |-> CountBy(members, "status", "active"),
     inactiveMembers |-> CountBy(members, "status", "excluded"),
     companies |-> CountBy(members, "type", "company"),
     individualEntrepreneurs |-> CountBy(members, "type", "ie"),
     privatePersons |-> CountBy(members, "type", "person"),
     lastUpdated |-> now,
     sourceFile |-> excel_file]

\* output['metadata']
Metadata(members, now) ==
    [totalMembers |-> Len(members),
     activeMembers |-> CountBy(members, "status", "active"),
     inactiveMembers |-> CountBy(members, "status", "inactive"),
     companies |-> CountBy(members, "type", "company"),
     individualEntrepreneurs |-> CountBy(members, "type", "ie"),
     privatePersons |-> CountBy(members, "type", "person"),
     lastUpdated |-> now,
     sourceFile |-> excel_file]

\* output
Output(members, now) ==
    [metadata |-> Metadata(members, now), members |-> members]

\* one record of search_data
search_record(m) ==
    [id |-> m.id,
     name |-> m.name,
     shortName |-> m.shortName,
     inn |-> m.inn,
     type |-> m.type,
     status |-> m.status,
     statusText |-> m.statusText]

\* search_data built from the active members only
search_data_activeonly(members) ==
    LET IsActive(m) == m.status = "active"
        active == SelectSeq(members, IsActive)
    IN  [i \in 1..Len(active) |-> search_record(active[i])]

\* search_data
search_data(members) ==
    [i \in 1..Len(members) |-> search_record(members[i])]

-----------------------------------------------------------------------------
(* Initial state: the table is read, nothing is computed or written *)

Init ==
    /\ df_raw \in Tables
    /\ pc = "find_start"
    /\ idx = 0
    /\ data_start = None
    /\ separator_row = None
    /\ all_members = << >>
    /\ src_rows = << >>
    /\ complete_json = NoFile
    /\ search_json = NoFile
    /\ result = NotReturned
    /\ report = "none"

-----------------------------------------------------------------------------
(* Actions *)

\* one iteration of the scan for the data start: stop at the first row whose
\* first cell is all digits and has the value 1
FindDataStart ==
    /\ pc = "find_start"
    /\ idx < Len(df_raw)
    /\ IF is_data_start(Row(idx))
       THEN /\ data_start' = idx
            /\ pc' = "find_separator"
       ELSE /\ UNCHANGED <<data_start, pc>>
    /\ idx' = idx + 1
    /\ UNCHANGED <<df_raw, separator_row, all_members, src_rows,
                   complete_json, search_json, result, report>>

\* the scan ended without a data start: return None
DataStartMissing ==
    /\ pc = "find_start"
    /\ idx = Len(df_raw)
    /\ result' = ReturnedNone
    /\ pc' = "main"
    /\ UNCHANGED <<df_raw, idx, data_start, separator_row, all_members,
                   src_rows, complete_json, search_json, report>>

\* one iteration of the scan for the separator over the rows after the data
\* start, or the end of that scan; the slices are taken when the scan ends
FindSeparator ==
    /\ pc = "find_separator"
    /\ IF idx < Len(df_raw) /\ ~is_separator_row(Row(idx))
       THEN /\ idx' = idx + 1
            /\ UNCHANGED <<separator_row, pc>>
       ELSE /\ separator_row' = IF idx < Len(df_raw) THEN idx ELSE None
            /\ pc' = "active"
            /\ idx' = active_df(data_start, separator_row').lo
    /\ UNCHANGED <<df_raw, data_start, all_members, src_rows, complete_json,
                   search_json, result, report>>

\* one iteration of the loop over active_df, or its end
ProcessActive ==
    /\ pc = "active"
    /\ IF idx < active_df(data_start, separator_row).hi
       THEN /\ IF skip_row(Row(idx))
               THEN UNCHANGED <<all_members, src_rows>>
               ELSE /\ all_members' =
                           Append(all_members, active_member(Row(idx)))
                    /\ src_rows' = Append(src_rows, idx)
            /\ idx' = idx + 1
            /\ pc' = pc
       ELSE /\ pc' = "excluded"
            /\ idx' = excluded_df(separator_row).lo
            /\ UNCHANGED <<all_members, src_rows>>
    /\ UNCHANGED <<df_raw, data_start, separator_row, complete_json,
                   search_json, result, report>>

\* one iteration of the loop over excluded_df, or its end
ProcessExcluded ==
    /\ pc = "excluded"
    /\ IF idx < excluded_df(separator_row).hi
       THEN /\ IF skip_row(Row(idx))
               THEN UNCHANGED <<all_members, src_rows>>
               ELSE /\ all_members' =
                           Append(all_members, excluded_member(Row(idx)))
                    /\ src_rows' = Append(src_rows, idx)
            /\ idx' = idx + 1
            /\ pc' = pc
       ELSE /\ pc' = "write_complete"
            /\ idx' = idx
            /\ UNCHANGED <<all_members, src_rows>>
    /\ UNCHANGED <<df_raw, data_start, separator_row, complete_json,
                   search_json, result, report>>

\* build output and write members_complete.json
WriteComplete ==
    /\ pc = "write_complete"
    /\ \E now \in 0..MaxClock :
           complete_json' = File(Output(all_members, now))
    /\ pc' = "write_search"
    /\ UNCHANGED <<df_raw, idx, data_start, separator_row, all_members,
                   src_rows, search_json, result, report>>

\* build search_data and write members_search.json
WriteSearch ==
    /\ pc = "write_search"
    /\ search_json' = File(search_data(all_members))
    /\ pc' = "return"
    /\ UNCHANGED <<df_raw, idx, data_start, separator_row, all_members,
                   src_rows, complete_json, result, report>>

\* return output
ReturnOutput ==
    /\ pc = "return"
    /\ result' = Returned(complete_json.data)
    /\ pc' = "main"
    /\ UNCHANGED <<df_raw, idx, data_start, separator_row, all_members,
                   src_rows, complete_json, search_json, report>>

\* __main__ after the call: a dict with keys is true, None is false
Main ==
    /\ pc = "main"
    /\ report' = IF result.returned /\ ~result.none THEN "SUCCESS"
                 ELSE "FAILED"
    /\ pc' = "exit"
    /\ UNCHANGED <<df_raw, idx, data_start, separator_row, all_members,
                   src_rows, complete_json, search_json, result>>

Next ==
    \/ FindDataStart
    \/ DataStartMissing
    \/ FindSeparator
    \/ ProcessActive
    \/ ProcessExcluded
    \/ WriteComplete
    \/ WriteSearch
    \/ ReturnOutput
    \/ Main

Spec == Init /\ [][Next]_vars

-----------------------------------------------------------------------------
(* Vocabulary of the properties, stated on the input table *)

\* process_excel_to_json and __main__ have run to the end
Finished == pc = "exit"

\* the run got past the two loops over the sections
RowsProcessed ==
    pc \in {"write_complete", "write_search", "return", "main", "exit"}
        /\ data_start # None

\* the first cell of row i, trimmed
FirstCellText(i) == Strip(Str(Row(i)[1]))

\* t is a decimal numeral of the integer 1: zeros, then a one
IsNumeralOne(t) ==
    /\ Len(t) > 0
    /\ t[Len(t)] = 49
    /\ \A k \in 1..(Len(t) - 1) : t[k] = 48

\* t is a numeral of the integer 1 followed by a fraction of zeros ('1.0')
IsOnePointZero(t) ==
    \E d \in 1..Len(t) :
        /\ t[d] = 46
        /\ IsNumeralOne(SubSeq(t, 1, d - 1))
        /\ d < Len(t)
        /\ \A k \in (d + 1)..Len(t) : t[k] = 48

\* the first cell of row i denotes the integer 1
DenotesOne(i) ==
    /\ ~IsNa(Row(i)[1])
    /\ IsNumeralOne(FirstCellText(i)) \/ IsOnePointZero(FirstCellText(i))

\* the first cell of row i carries one of the separator phrases
HasSeparatorPhrase(i) ==
    /\ ~IsNa(Row(i)[1])
    /\ \E w \in SeparatorMarkers : Contains(Lower(Str(Row(i)[1])), w)

\* the separator row of the table: the first row after the data start with
\* a separator phrase, None when there is none
SeparatorOf(start) ==
    LET after == {i \in (start + 1)..(Len(df_raw) - 1) : HasSeparatorPhrase(i)}
    IN  IF after = {} THEN None ELSE MinOf(after)

\* row i lies in the active or in the inactive section
InSection(i) ==
    /\ data_start # None
    /\ i \in data_start..(Len(df_raw) - 1)
    /\ i # SeparatorOf(data_start)

\* the first cell of row i, trimmed, is all decimal digits and its second
\* cell is not empty after clean_text
HasNumberAndName(i) ==
    /\ ~IsNa(Row(i)[1])
    /\ Len(FirstCellText(i)) > 0
    /\ \A k \in 1..Len(FirstCellText(i)) : FirstCellText(i)[k] \in 48..57
    /\ clean_text(Row(i)[2]) # Empty

\* the records made from row i, as positions in all_members
RecordsOf(i) == {k \in 1..Len(all_members) : src_rows[k] = i}

-----------------------------------------------------------------------------
(* Properties *)

\* C1: when no row of the table has a first cell denoting the integer 1,
\* process_excel_to_json returns None: no data start is ever found, no row
\* is processed, no record is built, neither members_complete.json nor
\* members_search.json is written, and __main__ reports the failure.
C1_NoDataStartFails ==
    (\A i \in 0..(Len(df_raw) - 1) : ~DenotesOne(i)) =>
        /\ data_start = None
        /\ pc \in {"find_start", "main", "exit"}
        /\ all_members = << >>
        /\ complete_json = NoFile
        /\ search_json = NoFile
        /\ (pc \in {"main", "exit"} => result = ReturnedNone)
        /\ (Finished => report = "FAILED")

\* C1 witness: a run over a table with numbered rows, none of them numbered
\* 1, ended with None and the failure message
C1_Witness ==
    /\ Finished
    /\ result = ReturnedNone
    /\ report = "FAILED"
    /\ \E i \in 0..(Len(df_raw) - 1) : HasNumberAndName(i)
    /\ \A i \in 0..(Len(df_raw) - 1) : ~DenotesOne(i)

\* C2: in the complete document, metadata.totalMembers is the number of
\* records of members, and activeMembers + inactiveMembers is totalMembers.
C2_TotalsAgree ==
    complete_json.exists =>
        LET doc == complete_json.data
        IN  /\ doc.metadata.totalMembers = Len(doc.members)
            /\ doc.metadata.activeMembers + doc.metadata.inactiveMembers
                   = doc.metadata.totalMembers

\* C2 witness: a successful run with active and inactive members
C2_Witness ==
    /\ Finished
    /\ report = "SUCCESS"
    /\ complete_json.data.metadata.activeMembers > 0
    /\ complete_json.data.metadata.inactiveMembers > 0

\* C3: members_search.json has as many records as members of
\* members_complete.json, in the same order, and record i has exactly the
\* fields id, name, shortName, inn, type, status, statusText, each equal to
\* that field of member i.
C3_SearchIsProjection ==
    search_json.exists =>
        /\ complete_json.exists
        /\ LET members == complete_json.data.members
               search == search_json.data
           IN  /\ Len(search) = Len(members)
               /\ \A i \in 1..Len(search) :
                      /\ DOMAIN search[i] =
                             {"id", "name", "shortName", "inn", "type",
                              "status", "statusText"}
                      /\ \A f \in DOMAIN search[i] :
                             search[i][f] = members[i][f]

\* C3 witness: both files written, with an active and an inactive record of
\* different names
C3_Witness ==
    /\ search_json.exists
    /\ \E i, j \in 1..Len(search_json.data) :
           /\ search_json.data[i].status = "active"
           /\ search_json.data[j].status = "inactive"
           /\ search_json.data[i].name # search_json.data[j].name

\* C4: a record is active exactly when its row is at or after the data
\* start and before the separator row (anywhere at or after the data start
\* when there is no separator) and inactive exactly when its row is after
\* the separator row; the separator row gives no record, no row gives two
\* records, and without a separator there is no inactive record.
C4_StatusBySection ==
    LET sep == SeparatorOf(data_start)
    IN  /\ Len(src_rows) = Len(all_members)
        /\ \A k \in 1..Len(all_members) :
               /\ all_members[k].status \in {"active", "inactive"}
               /\ all_members[k].status = "active" <=>
                      /\ src_rows[k] >= data_start
                      /\ (sep = None \/ src_rows[k] < sep)
               /\ all_members[k].status = "inactive" <=>
                      (sep # None /\ src_rows[k] > sep)
               /\ src_rows[k] # sep
        /\ \A k, l \in 1..Len(all_members) :
               src_rows[k] = src_rows[l] => k = l
        /\ (sep = None =>
               \A k \in 1..Len(all_members) :
                   all_members[k].status # "inactive")

\* C4 witness: a finished run with a record before and a record after the
\* separator row
C4_Witness ==
    /\ Finished
    /\ SeparatorOf(data_start) # None
    /\ \E k, l \in 1..Len(all_members) :
           /\ src_rows[k] < SeparatorOf(data_start)
           /\ src_rows[l] > SeparatorOf(data_start)

\* C5: once the sections are processed, a row of a section has a record if
\* and only if its first cell, trimmed, is all decimal digits and its second
\* cell is not empty after clean_text; so a row with a missing first cell
\* has none, and a skipped row does not keep later rows from their records.
C5_RecordIffNumberAndName ==
    RowsProcessed =>
        \A i \in 0..(Len(df_raw) - 1) :
            InSection(i) => (RecordsOf(i) # {} <=> HasNumberAndName(i))

\* C5 witness: a finished run in which a row with a missing first cell and a
\* name was skipped and a later row got its record
C5_Witness ==
    /\ Finished
    /\ \E i, j \in 0..(Len(df_raw) - 1) :
           /\ InSection(i) /\ InSection(j) /\ i < j
           /\ IsNa(Row(i)[1])
           /\ clean_text(Row(i)[2]) # Empty
           /\ RecordsOf(i) = {}
           /\ RecordsOf(j) # {}

\* C6: the name of every record is not empty, neither begins nor ends with
\* whitespace and holds no newline.
C6_NameIsClean ==
    \A k \in 1..Len(all_members) :
        LET name == all_members[k].name
        IN  /\ Len(name) > 0
            /\ ~IsSpace(name[1])
            /\ ~IsSpace(name[Len(name)])
            /\ \A p \in 1..Len(name) : name[p] # 10

\* C6 witness: a record whose name cell had surrounding whitespace and a
\* newline inside
C6_Witness ==
    \E k \in 1..Len(all_members) :
        LET raw == Str(Row(src_rows[k])[2])
        IN  /\ IsSpace(raw[1])
            /\ IsSpace(raw[Len(raw)])
            /\ \E p \in 1..Len(raw) : raw[p] = 10

\* the lowercased name holds an individual-entrepreneur marker
HasIeMarker(name) == \E w \in IeMarkers : Contains(Lower(name), w)

\* the lowercased name holds an organizational marker
HasOrgMarker(name) == \E w \in OrgMarkers : Contains(Lower(name), w)

\* C7: the type of every record is company, ie or person: ie when the
\* lowercased name holds an entrepreneur marker (whatever else it holds),
\* else company when it holds an organizational marker, else person; and
\* in the complete document companies + individualEntrepreneurs +
\* privatePersons is totalMembers.
C7_TypeByDecisionList ==
    /\ \A k \in 1..Len(all_members) :
           LET m == all_members[k]
           IN  /\ m.type \in {"company", "ie", "person"}
               /\ HasIeMarker(m.name) => m.type = "ie"
               /\ (~HasIeMarker(m.name) /\ HasOrgMarker(m.name))
                      => m.type = "company"
               /\ (~HasIeMarker(m.name) /\ ~HasOrgMarker(m.name))
                      => m.type = "person"
    /\ complete_json.exists =>
           LET meta == complete_json.data.metadata
           IN  meta.companies + meta.individualEntrepreneurs
                   + meta.privatePersons = meta.totalMembers

\* C7 witness: a complete document with a record of each type, one of them
\* an ie whose name also holds an organizational marker
C7_Witness ==
    /\ complete_json.exists
    /\ complete_json.data.metadata.companies > 0
    /\ complete_json.data.metadata.privatePersons > 0
    /\ \E k \in 1..Len(all_members) :
           /\ all_members[k].type = "ie"
           /\ HasOrgMarker(all_members[k].name)

\* short is a quoted span of name: a piece of name that starts at a '«' and
\* ends at a later '»'
IsQuotedSpan(name, short) ==
    \E a, b \in 1..Len(name) :
        /\ a < b
        /\ name[a] = 171
        /\ name[b] = 187
        /\ short = SubSeq(name, a, b)

\* C8: for a company whose name holds both '«' and '»', the short name is
\* the quoted span from '«' to '»', both included, with 'ООО ' in front
\* exactly when 'ООО' occurs in the first 30 characters of the name.
C8_QuotedSpanShortName ==
    \A k \in 1..Len(all_members) :
        LET m == all_members[k]
        IN  (m.type = "company" /\ Contains(m.name, LQ) /\ Contains(m.name, RQ))
                => IF Contains(Slice(m.name, 0, 30), OOO)
                   THEN /\ Slice(m.shortName, 0, 4) = OOO \o SP
                        /\ IsQuotedSpan(m.name, SliceFrom(m.shortName, 4))
                   ELSE IsQuotedSpan(m.name, m.shortName)

\* t is a string of decimal digits followed by '.0'
IsDigitsPointZero(t) ==
    /\ Len(t) >= 3
    /\ SliceFrom(t, Len(t) - 2) = <<46, 48>>
    /\ \A k \in 1..(Len(t) - 2) : t[k] \in 48..57

\* C9: once the sections are processed, a row of a section whose first cell
\* is digits followed by '.0' ('5.0') and whose name is not empty has a
\* record, and its id is the integer without the '.0' and without leading
\* zeros ('5').
C9_TrailingPointZeroId ==
    RowsProcessed =>
        \A i \in 0..(Len(df_raw) - 1) :
            (/\ InSection(i)
             /\ ~IsNa(Row(i)[1])
             /\ IsDigitsPointZero(FirstCellText(i))
             /\ clean_text(Row(i)[2]) # Empty)
                => \E k \in RecordsOf(i) :
                       all_members[k].id =
                           IntToStr(ParseInt(Slice(FirstCellText(i), 0,
                                                   Len(FirstCellText(i)) - 2)))

\* the order of the records follows the order of the rows, none is from a
\* row before the data start, and the row of the data start is the first
\* row looked at for the active section
RecordsStartAtDataStart ==
    /\ \A k \in 1..Len(src_rows) : src_rows[k] >= data_start
    /\ (pc = "active" => idx >= data_start)
    /\ (Len(src_rows) > 0 /\ HasNumberAndName(data_start))
           => (src_rows[1] = data_start /\ all_members[1].status = "active")
    /\ (RowsProcessed /\ HasNumberAndName(data_start)) => Len(src_rows) > 0

\* C10 as stated: the data start is the first row whose first cell, trimmed,
\* is exactly the text '1'; no row before it gives a record and it is the
\* first row of the active section.
C10_DataStartIsTextOne ==
    /\ data_start # None =>
           /\ FirstCellText(data_start) = <<49>>
           /\ \A j \in 0..(data_start - 1) : FirstCellText(j) # <<49>>
           /\ RecordsStartAtDataStart
    /\ (data_start = None /\ pc # "find_start") =>
           \A j \in 0..(Len(df_raw) - 1) : FirstCellText(j) # <<49>>

\* C10 amended: the data start is the first row whose first cell, trimmed,
\* is a string of decimal digits whose integer value is 1 ('1', '01'; not
\* '1.0'); no row before it gives a record and it is the first row of the
\* active section.
C10_DataStartIsNumeralOne ==
    /\ data_start # None =>
           /\ IsNumeralOne(FirstCellText(data_start))
           /\ \A j \in 0..(data_start - 1) : ~IsNumeralOne(FirstCellText(j))
           /\ RecordsStartAtDataStart
    /\ (data_start = None /\ pc # "find_start") =>
           \A j \in 0..(Len(df_raw) - 1) : ~IsNumeralOne(FirstCellText(j))

\* C10 witness: a finished run whose data start is a row numbered '01' that
\* follows a row numbered '1.0', and whose first record is from that row
C10_Witness ==
    /\ Finished
    /\ data_start > 0
    /\ FirstCellText(data_start) = <<48, 49>>
    /\ \E j \in 0..(data_start - 1) : FirstCellText(j) = <<49, 46, 48>>
    /\ Len(src_rows) > 0
    /\ src_rows[1] = data_start

====
